---------------------------- MODULE Spec2Model ----------------------------
(***************************************************************************)
(* A model of the alphasign library: the Serial and USB transports of      *)
(* alphasign/interfaces/local.py, the allocation and run-sequence builders *)
(* of alphasign/interfaces/base.py and the dots pictures of                *)
(* alphasign/dots.py.                                                      *)
(*                                                                         *)
(* Text is modelled as a sequence of one-character strings, a byte string  *)
(* as a sequence of byte values, None as 0 where the other values are      *)
(* positive numbers.                                                       *)
(***************************************************************************)
EXTENDS Integers, Sequences, FiniteSets, TLC

VARIABLES
  iface,           \* which transport object the caller holds: "Serial" or "USB"
  opens,           \* serial.Serial handles created so far (their ids are 1..opens)
  conn,            \* Serial._conn: 0 is None, else the id of the serial.Serial handle
  openh,           \* the serial handles that are open (isOpen())
  device,          \* USB._device: 0 is None, 1 the device usb.core.find returned
  write_endpoint,  \* USB._write_endpoint: 0 is None, else its wMaxPacketSize
  pc,              \* position of the running USB.write call, "idle" between calls
  packet,          \* packet_bytes of the running or last write call
  remaining,       \* USB.write's local: the unsent remainder of the chunk loop
  written,         \* USB.write's local: the sum of the counts the chunk loop got
  log,             \* what the running or last call did to the link, in order
  ticks,           \* the time.sleep(0.1) calls of the running or last USB.write
                   \* call, counted modulo TickMod
  result,          \* what the last write call returned: "True", "False", "none"
  raised,          \* the exception the last call raised out of itself, or "none"
  files,           \* the collection handed to allocate and set_run_sequence
  lastcall,        \* the last builder call: its name and its locked argument
  sent,            \* the packets the last builder call gave to self.write, in order
  fraised,         \* the exception the last builder call raised, or "none"
  pic,             \* the dots picture the last constructor call made, or NoPic
  attempt,         \* the arguments of the last constructor call
  cerr,            \* the exception the last constructor call raised, or "none"
  wire             \* str() of pic, once it has been taken

tvars == <<iface, opens, conn, openh, device, write_endpoint,
           pc, packet, remaining, written, log, ticks, result, raised>>

fvars == <<files, lastcall, sent, fraised>>

dvars == <<pic, attempt, cerr, wire>>

vars == <<tvars, fvars, dvars>>

-----------------------------------------------------------------------------
(* Bounds of the model *)

\* payload bodies carry 0..MaxBody bytes after the command code
MaxBody == 6
\* wMaxPacketSize of the write endpoint ranges over 1..MaxPacket
MaxPacket == 2
\* underlying connections opened in one behaviour
MaxOpens == 2
\* underlying writes of one call that report fewer bytes than they were offered
\* (such a write reports 0..MaxPacket bytes)
MaxShort == 1
\* the sleeps of a call are counted modulo TickMod
TickMod == 2

-----------------------------------------------------------------------------
(* Frames and command codes *)

\* the offset at which USB.write splits a small-dots payload
SmallDotsSplit == 16

\* command codes, as byte values ("I", "M", "K" and, for any other command, "E")
WRITE_SMALL_DOTS == 73
WRITE_LARGE_DOTS == 77
WRITE_RGB_DOTS == 75
WRITE_SPECIAL == 69

CommandCodes == {WRITE_SMALL_DOTS, WRITE_LARGE_DOTS, WRITE_RGB_DOTS, WRITE_SPECIAL}

\* five NUL, SOH, type "Z", address "00", STX: what precedes the command code
FrameHeader == <<0, 0, 0, 0, 0, 1, 90, 48, 48, 2>>

\* the frame of a command: header, command code, n body bytes (each distinct, so
\* that a byte sent twice or out of order shows), EOT
Frame(code, n) == FrameHeader \o <<code>> \o [i \in 1..n |-> 100 + i] \o <<4>>

Packets == {Frame(c, n) : c \in CommandCodes, n \in 0..MaxBody}

\* repr(packet)[32]: in the repr of a frame the opening quote takes 1 character,
\* each of the six control bytes of the header 4 ("\x00") and "Z00" 3, so that
\* index 32 is the byte after STX
command_code(p) == p[Len(FrameHeader) + 1]

Min(a, b) == IF a < b THEN a ELSE b

\* Python's s[a:b] and s[a:]
Slice(s, a, b) == SubSeq(s, Min(a, Len(s)) + 1, Min(b, Len(s)))
SliceFrom(s, a) == SubSeq(s, Min(a, Len(s)) + 1, Len(s))

-----------------------------------------------------------------------------
(* The link *)

\* device.write(endpoint, data) that reported ret bytes written
WriteEvent(data, ret) == [op |-> "write", data |-> data, ret |-> ret]
\* time.sleep(0.1)
SleepEvent == [op |-> "sleep", data |-> <<>>, ret |-> 0]

\* ret is RAISED when the call raised instead of returning
RAISED == -1

IsShort(e) == e.op = "write" /\ e.ret >= 0 /\ e.ret < Len(e.data)
Shorts(l) == Cardinality({i \in 1..Len(l) : IsShort(l[i])})

\* what an underlying write of data may do: raise, or report a count of
\* bytes written between 0 and len(data)
Outcomes(data, l) ==
  {RAISED, Len(data)} \cup
  {k \in 0..Min(Len(data), MaxPacket) : Shorts(l) < MaxShort}

\* the longest frame
MaxFrame == Len(FrameHeader) + 2 + MaxBody

-----------------------------------------------------------------------------
(* Serial *)

SerialInit ==
  /\ conn = 0
  /\ openh = {}

\* serial.Serial(port=...) returned: a new handle, open
SerialOpenHandle ==
  /\ opens' = opens + 1
  /\ conn' = opens + 1
  /\ openh' = openh \cup {opens + 1}

SerialIdle ==
  UNCHANGED <<device, write_endpoint, pc, remaining, written, ticks, fvars, dvars>>

\* ok: whether serial.Serial() returns rather than raising SerialException
Serial_connect(ok) ==
  /\ iface = "Serial"
  /\ IF ok
       THEN /\ opens < MaxOpens
            /\ SerialOpenHandle
            /\ raised' = "none"
       ELSE /\ UNCHANGED <<opens, conn, openh>>
            /\ raised' = "SerialException"
  /\ log' = <<>>
  /\ result' = "none"
  /\ packet' = <<>>
  /\ SerialIdle
  /\ UNCHANGED iface

Serial_disconnect ==
  /\ iface = "Serial"
  /\ openh' = IF conn # 0 THEN openh \ {conn} ELSE openh
  /\ raised' = "none"
  /\ log' = <<>>
  /\ result' = "none"
  /\ packet' = <<>>
  /\ SerialIdle
  /\ UNCHANGED <<iface, opens, conn>>

\* self._conn.write(...) in its try block; write_ok: whether it returns rather
\* than raising OSError
SerialConnWrite(p, write_ok) ==
  /\ log' = <<WriteEvent(p, IF write_ok THEN Len(p) ELSE RAISED)>>
  /\ result' = IF write_ok THEN "True" ELSE "False"
  /\ raised' = "none"

\* Serial.write on an open connection
Serial_write(p, write_ok) ==
  /\ iface = "Serial"
  /\ ~(conn = 0 \/ conn \notin openh)
  /\ packet' = p
  /\ SerialConnWrite(p, write_ok)
  /\ SerialIdle
  /\ UNCHANGED <<iface, opens, conn, openh>>

\* Serial.write when it has to connect first; connect_ok as ok in Serial_connect
\* (when the connect raises, the write is not reached and write_ok is not drawn)
Serial_write_connect(p, connect_ok, write_ok) ==
  /\ iface = "Serial"
  /\ conn = 0 \/ conn \notin openh
  /\ packet' = p
  /\ IF connect_ok
       THEN /\ opens < MaxOpens
            /\ SerialOpenHandle
            /\ SerialConnWrite(p, write_ok)
       ELSE /\ write_ok
            /\ UNCHANGED <<opens, conn, openh>>
            /\ raised' = "SerialException"
            /\ log' = <<>>
            /\ result' = "none"
  /\ SerialIdle
  /\ UNCHANGED iface

-----------------------------------------------------------------------------
(* USB *)

\* (USB._read_endpoint is set by connect and disconnect and read by nothing:
\* it is left out)
USBInit ==
  /\ device = 0
  /\ write_endpoint = 0

\* What the device does to the body of USB.connect past the early return:
\*   found:   usb.core.find returned a device
\*   cfg_ok:  is_kernel_driver_active, get_active_configuration and cfg[(0,0)]
\*            returned (reset, detach_kernel_driver and set_configuration raise
\*            into handlers that only print)
\*   max_out: the wMaxPacketSize of its OUT endpoint, 0 when it has none
ConnectOutcomes ==
  {[found |-> FALSE, cfg_ok |-> FALSE, max_out |-> 0],
   [found |-> TRUE, cfg_ok |-> FALSE, max_out |-> 0]}
  \cup {[found |-> TRUE, cfg_ok |-> TRUE, max_out |-> m] : m \in 0..MaxPacket}

\* the body of USB.connect past the early return: USB's fields and the
\* exception raised, or "none"
USBConnectBody(o) ==
  IF ~o.found
    THEN /\ device' = 0
         /\ UNCHANGED write_endpoint
         /\ raised' = "USBError"
    ELSE /\ device' = 1
         /\ IF ~o.cfg_ok
              THEN /\ UNCHANGED write_endpoint
                   /\ raised' = "USBError"
              ELSE /\ write_endpoint' = IF o.max_out # 0 THEN o.max_out ELSE write_endpoint
                   /\ raised' = IF write_endpoint' = 0 THEN "USBError" ELSE "none"

USBIdle == UNCHANGED <<opens, conn, openh, remaining, written, ticks, fvars, dvars>>

\* USB.connect with no device held
USB_connect(o) ==
  /\ iface = "USB"
  /\ pc = "idle"
  /\ device = 0
  /\ USBConnectBody(o)
  /\ log' = <<>>
  /\ result' = "none"
  /\ packet' = <<>>
  /\ USBIdle
  /\ UNCHANGED <<iface, pc>>

\* USB.connect with a device held: the early return
USB_connect_again ==
  /\ iface = "USB"
  /\ pc = "idle"
  /\ device # 0
  /\ raised' = "none"
  /\ log' = <<>>
  /\ result' = "none"
  /\ packet' = <<>>
  /\ USBIdle
  /\ UNCHANGED <<iface, pc, device, write_endpoint>>

USB_disconnect ==
  /\ iface = "USB"
  /\ pc = "idle"
  /\ IF device # 0
       THEN /\ device' = 0
            /\ write_endpoint' = 0
       ELSE UNCHANGED <<device, write_endpoint>>
  /\ raised' = "none"
  /\ log' = <<>>
  /\ result' = "none"
  /\ packet' = <<>>
  /\ USBIdle
  /\ UNCHANGED <<iface, pc>>

\* where USB.write goes once it has the command code
Branch(code) ==
  IF code = WRITE_SMALL_DOTS THEN "small1"
  ELSE IF code = WRITE_LARGE_DOTS \/ code = WRITE_RGB_DOTS THEN "chunk"
  ELSE "single"

\* USB.write from after the connect to the try block: packet_bytes, the command
\* code and max_packet_size, which raises when there is no write endpoint
USBWriteEnter(p) ==
  /\ packet' = p
  /\ log' = <<>>
  /\ result' = "none"
  /\ written' = 0
  /\ ticks' = 0
  /\ IF write_endpoint' = 0
       THEN /\ raised' = "AttributeError"
            /\ pc' = "idle"
            /\ remaining' = <<>>
       ELSE /\ raised' = "none"
            /\ pc' = Branch(command_code(p))
            /\ remaining' = IF pc' = "chunk" THEN p ELSE <<>>

\* USB.write with a device held
USB_write(p) ==
  /\ iface = "USB"
  /\ pc = "idle"
  /\ device # 0
  /\ UNCHANGED <<device, write_endpoint>>
  /\ USBWriteEnter(p)
  /\ UNCHANGED <<iface, opens, conn, openh, fvars, dvars>>

\* USB.write with no device held, when its connect raises
USB_write_connect_raises(p, o) ==
  /\ iface = "USB"
  /\ pc = "idle"
  /\ device = 0
  /\ USBConnectBody(o)
  /\ raised' # "none"
  /\ packet' = p
  /\ log' = <<>>
  /\ result' = "none"
  /\ UNCHANGED <<iface, opens, conn, openh, pc, remaining, written, ticks, fvars, dvars>>

\* USB.write with no device held, when its connect returns
USB_write_connect(p, o) ==
  /\ iface = "USB"
  /\ pc = "idle"
  /\ device = 0
  /\ USBConnectBody(o)
  /\ raised' = "none"
  /\ USBWriteEnter(p)
  /\ UNCHANGED <<iface, opens, conn, openh, fvars, dvars>>

\* the except clause of USB.write: the underlying write of data raised
USBWriteFails(data) ==
  /\ log' = Append(log, WriteEvent(data, RAISED))
  /\ result' = "False"
  /\ pc' = "idle"
  /\ remaining' = <<>>
  /\ written' = 0
  /\ UNCHANGED ticks

USBWriting ==
  UNCHANGED <<iface, opens, conn, openh, device, write_endpoint, packet, raised,
              fvars, dvars>>

\* time.sleep(0.1)
sleep(t) == (t + 1) % TickMod

\* a split that follows the payload's length
part1_of_half(p) == Slice(p, 0, Len(p) \div 2)

\* part1 = packet_bytes[0:16]
part1_of(p) == Slice(p, 0, SmallDotsSplit)
\* part2 = packet_bytes[16:]
part2_of(p) == SliceFrom(p, SmallDotsSplit)

\* the write of part1, then the sleep
USB_write_part1(r) ==
  /\ pc = "small1"
  /\ r \in Outcomes(part1_of(packet), log)
  /\ IF r = RAISED
       THEN USBWriteFails(part1_of(packet))
       ELSE /\ log' = log \o <<WriteEvent(part1_of(packet), r), SleepEvent>>
            /\ ticks' = sleep(ticks)
            /\ pc' = "small2"
            /\ UNCHANGED <<result, remaining, written>>
  /\ USBWriting

\* the write of part2
USB_write_part2(r) ==
  /\ pc = "small2"
  /\ r \in Outcomes(part2_of(packet), log)
  /\ IF r = RAISED
       THEN USBWriteFails(part2_of(packet))
       ELSE /\ log' = Append(log, WriteEvent(part2_of(packet), r))
            /\ pc' = "final"
            /\ UNCHANGED <<result, remaining, written, ticks>>
  /\ USBWriting

\* a chunk one byte longer than the endpoint takes
chunk_of_long(rem, max_packet_size) == Slice(rem, 0, max_packet_size + 1)

\* remaining[:max_packet_size]
chunk_of(rem, max_packet_size) == Slice(rem, 0, max_packet_size)
\* a remainder that starts one byte past the count reported
rest_of_skip(rem, partial) == SliceFrom(rem, partial + 1)

\* remaining[partial:]
rest_of(rem, partial) == SliceFrom(rem, partial)

\* one iteration of the while loop over remaining
USB_write_chunk(r) ==
  /\ pc = "chunk"
  /\ r \in Outcomes(chunk_of(remaining, write_endpoint), log)
  /\ IF r = RAISED
       THEN USBWriteFails(chunk_of(remaining, write_endpoint))
       ELSE /\ log' = log \o <<WriteEvent(chunk_of(remaining, write_endpoint), r),
                               SleepEvent>>
            /\ remaining' = rest_of(remaining, r)
            /\ written' = written + r
            /\ ticks' = sleep(ticks)
            /\ pc' = IF remaining' # <<>> THEN "chunk" ELSE "final"
            /\ UNCHANGED result
  /\ USBWriting

\* the same iteration on a link whose short counts are not limited in number:
\* any count from 0 to the length of the chunk, or the write raises. The log
\* is not kept here.
USB_write_chunk_any(r) ==
  /\ pc = "chunk"
  /\ r \in {RAISED} \cup 0..Len(chunk_of(remaining, write_endpoint))
  /\ IF r = RAISED
       THEN /\ result' = "False"
            /\ pc' = "idle"
            /\ remaining' = <<>>
            /\ written' = 0
            /\ UNCHANGED ticks
       ELSE /\ remaining' = rest_of(remaining, r)
            /\ written' = written + r
            /\ ticks' = sleep(ticks)
            /\ pc' = IF remaining' # <<>> THEN "chunk" ELSE "final"
            /\ UNCHANGED result
  /\ UNCHANGED log
  /\ USBWriting

\* any other command: one write of packet_bytes
USB_write_whole(r) ==
  /\ pc = "single"
  /\ r \in Outcomes(packet, log)
  /\ IF r = RAISED
       THEN USBWriteFails(packet)
       ELSE /\ log' = Append(log, WriteEvent(packet, r))
            /\ pc' = "final"
            /\ UNCHANGED <<result, remaining, written, ticks>>
  /\ USBWriting

\* a terminator that carries a byte
empty_packet_nul == <<0>>

\* b'', the packet that finalizes the transfer
empty_packet == <<>>

\* the write of the empty packet, then return True
USB_write_final(r) ==
  /\ pc = "final"
  /\ r \in {RAISED, 0}
  /\ IF r = RAISED
       THEN USBWriteFails(empty_packet)
       ELSE /\ log' = Append(log, WriteEvent(empty_packet, 0))
            /\ result' = "True"
            /\ pc' = "idle"
            /\ remaining' = <<>>
            /\ written' = 0
            /\ UNCHANGED ticks
  /\ USBWriting

-----------------------------------------------------------------------------
(* Text and numbers *)

HexChars == <<"0", "1", "2", "3", "4", "5", "6", "7", "8", "9",
              "A", "B", "C", "D", "E", "F">>

RECURSIVE HexDigits(_)
\* the uppercase hexadecimal digits of v >= 0, without padding
HexDigits(v) ==
  IF v < 16 THEN <<HexChars[v + 1]>>
  ELSE HexDigits(v \div 16) \o <<HexChars[(v % 16) + 1]>>

RECURSIVE DecDigits(_)
\* the decimal digits of v >= 0
DecDigits(v) ==
  IF v < 10 THEN <<HexChars[v + 1]>>
  ELSE DecDigits(v \div 10) \o <<HexChars[(v % 10) + 1]>>

\* zero-padding on the left to at least n characters: a longer s stays as it is
ZeroPad(s, n) == [i \in 1..(n - Len(s)) |-> "0"] \o s

\* ("%0" + str(n) + "X") % v, and "%04X" % v with n = 4
FormatHex(v, n) == ZeroPad(HexDigits(v), n)

\* An int of up to 32 bits is kept as the pair of its 16-bit halves, <<hi, lo>>
\* for hi * 65536 + lo: the model checker's integers stop short of 65535 * 65536.
Int32(hi, lo) == <<hi, lo>>

\* "%04X" % v
FormatHex4(v) == IF v[1] = 0 THEN FormatHex(v[2], 4)
                 ELSE HexDigits(v[1]) \o FormatHex(v[2], 4)

\* "%s" % v of an int v = <<hi, lo>>: hi * 65536 + lo is
\* (6 * hi) * 10000 + (5536 * hi + lo), written in decimal
FormatStr(v) ==
  LET low == 5536 * v[1] + v[2]
      high == 6 * v[1] + low \div 10000
  IN  IF high = 0 THEN DecDigits(low % 10000)
      ELSE DecDigits(high) \o ZeroPad(DecDigits(low % 10000), 4)

-----------------------------------------------------------------------------
(* Dots pictures *)

\* the bounds the constructors check
SmallMaxHeight == 31
SmallMaxWidth == 255
LargeMaxHeight == 65535
LargeMaxWidth == 65535
\* the label length the three constructors check
LabelLength == 1

\* constants.CR, the row terminator, as one character
CR == "CR"

NoPic ==
  [kind |-> "none", label |-> <<>>, height |-> 0, width |-> 0, data |-> <<>>,
   color_status |-> <<>>, size |-> Int32(0, 0)]

\* DotsPicture.__init__: the fields, and size = (height << 16) | width, which is
\* height * 65536 + width for the heights and widths below 65536 that the
\* constructors let through
DotsPicture(kind, label, height, width, data, color_status) ==
  [kind |-> kind, label |-> label, height |-> height, width |-> width,
   data |-> data, color_status |-> color_status,
   size |-> Int32(height, width)]

\* the checks of SmallDotsPicture.__init__ pass
SmallDotsAccepts(label, height, width) ==
  /\ ~(height > SmallMaxHeight)
  /\ ~(width > SmallMaxWidth)
  /\ ~(Len(label) # LabelLength)

\* the checks of LargeDotsPicture.__init__ and of RgbDotsPicture.__init__ pass
LargeDotsAccepts(label, height, width) ==
  /\ ~(height > LargeMaxHeight)
  /\ ~(width > LargeMaxWidth)
  /\ ~(Len(label) # LabelLength)

RGB_COLOR_STATUS == <<"8", "0", "0", "0">>

\* DotsPicture._format_dimensions: (height_hex, width_hex)
format_dimensions(p, num_bytes) ==
  <<FormatHex(p.height, num_bytes), FormatHex(p.width, num_bytes)>>

RECURSIVE format_data(_)
\* DotsPicture._format_data: every row followed by CR
format_data(rows) ==
  IF rows = <<>> THEN <<>> ELSE rows[1] \o <<CR>> \o format_data(Tail(rows))

\* the type tags of the three write commands, as characters
TagOf(kind) ==
  IF kind = "SmallDots" THEN "I" ELSE IF kind = "LargeDots" THEN "M" ELSE "K"

\* four digits whatever the variant
DimDigits_four(kind) == 4

\* the number of hex digits __str__ asks _format_dimensions for
DimDigits(kind) == IF kind = "SmallDots" THEN 2 ELSE 4

\* __str__ of the three dots pictures: the packet data handed to Packet, which
\* frames it
packet_data(p) ==
  <<TagOf(p.kind)>> \o p.label
    \o format_dimensions(p, DimDigits(p.kind))[1]
    \o format_dimensions(p, DimDigits(p.kind))[2]
    \o format_data(p.data)

\* labels of 0..MaxLabelLen characters
MaxLabelLen == 10
Alphabet == <<"A", "B", "C", "D", "E", "F", "G", "H", "I", "J", "K", "L", "M">>
LabelOfLen(n) == [i \in 1..n |-> Alphabet[((i - 1) % Len(Alphabet)) + 1]]
Labels == {LabelOfLen(n) : n \in 0..MaxLabelLen}

\* heights and widths: the values around each bound and each digit boundary
DimSamples == {0, 1, 15, 16, 31, 32, 255, 256, 4095, 4096, 65535, 65536}

\* pixel rows
DataSamples == {<<>>, <<<<"1", "0">>, <<"0", "1">>>>}
ColorSamples == {<<"1", "0", "0", "0">>, <<"2", "0", "0", "0">>}

DotsInit ==
  /\ pic = NoPic
  /\ attempt = [kind |-> "none", label |-> <<>>, height |-> 0, width |-> 0]
  /\ cerr = "none"
  /\ wire = <<>>

\* SmallDotsPicture(label, height, width, data, color_status): the picture, or
\* NoPic when the constructor raises ValueError
SmallDotsPicture(label, height, width, data, color_status) ==
  IF SmallDotsAccepts(label, height, width)
    THEN DotsPicture("SmallDots", label, height, width, data, color_status)
    ELSE NoPic

\* LargeDotsPicture(label, height, width, data, color_status), likewise
LargeDotsPicture(label, height, width, data, color_status) ==
  IF LargeDotsAccepts(label, height, width)
    THEN DotsPicture("LargeDots", label, height, width, data, color_status)
    ELSE NoPic

\* RgbDotsPicture(label, height, width, data), likewise
RgbDotsPicture(label, height, width, data) ==
  IF LargeDotsAccepts(label, height, width)
    THEN DotsPicture("RgbDots", label, height, width, data, RGB_COLOR_STATUS)
    ELSE NoPic

\* The model follows one picture object: its constructor call, then its str().
NotConstructed == attempt.kind = "none"

\* what a constructor call leaves: the picture, or ValueError and no picture
Constructed(kind, label, height, width, made) ==
  /\ attempt' = [kind |-> kind, label |-> label, height |-> height, width |-> width]
  /\ pic' = made
  /\ cerr' = IF made = NoPic THEN "ValueError" ELSE "none"

SmallDotsPicture_init(label, height, width, data, color_status) ==
  /\ NotConstructed
  /\ Constructed("SmallDots", label, height, width,
                 SmallDotsPicture(label, height, width, data, color_status))
  /\ UNCHANGED <<wire, tvars, fvars>>

LargeDotsPicture_init(label, height, width, data, color_status) ==
  /\ NotConstructed
  /\ Constructed("LargeDots", label, height, width,
                 LargeDotsPicture(label, height, width, data, color_status))
  /\ UNCHANGED <<wire, tvars, fvars>>

RgbDotsPicture_init(label, height, width, data) ==
  /\ NotConstructed
  /\ Constructed("RgbDots", label, height, width,
                 RgbDotsPicture(label, height, width, data))
  /\ UNCHANGED <<wire, tvars, fvars>>

\* str(picture)
Dots_str ==
  /\ pic # NoPic
  /\ wire = <<>>
  /\ wire' = packet_data(pic)
  /\ UNCHANGED <<pic, attempt, cerr, tvars, fvars>>

-----------------------------------------------------------------------------
(* The allocation and run-sequence builders *)

\* collections hold up to MaxFiles objects
MaxFiles == 3

LOCKED == "L"
UNLOCKED == "U"

\* a Text or String file: its label and its size in bytes
TextFile(label, size) ==
  [kind |-> "Text", label |-> label, height |-> 0, width |-> 0, data |-> <<>>,
   color_status |-> <<>>, size |-> Int32(0, size)]
StringFile(label, size) ==
  [kind |-> "String", label |-> label, height |-> 0, width |-> 0, data |-> <<>>,
   color_status |-> <<>>, size |-> Int32(0, size)]
\* an object of any other type
OtherObject ==
  [kind |-> "Other", label |-> <<"Z">>, height |-> 0, width |-> 0, data |-> <<>>,
   color_status |-> <<>>, size |-> Int32(0, 0)]

Mono == <<"1", "0", "0", "0">>

\* the objects collections are made of
FileObjects ==
  {TextFile(<<"A">>, 64), TextFile(<<"C">>, 256), StringFile(<<"B">>, 32),
   SmallDotsPicture(<<"1">>, 7, 10, <<>>, Mono),
   SmallDotsPicture(<<"2">>, 31, 255, <<>>, Mono),
   LargeDotsPicture(<<"M">>, 16, 64, <<>>, Mono),
   RgbDotsPicture(<<"R">>, 65535, 65535, <<>>),
   OtherObject}

RECURSIVE SeqsUpTo(_, _)
\* the sequences over S of length at most n
SeqsUpTo(S, n) ==
  IF n = 0 THEN {<<>>}
  ELSE LET shorter == SeqsUpTo(S, n - 1)
       IN  shorter \cup {Append(q, x) : q \in shorter, x \in S}

Collections == SeqsUpTo(FileObjects, MaxFiles)

IsShortLayout(obj) == obj.kind \in {"String", "Text", "SmallDots"}
IsLongLayout(obj) == obj.kind \in {"LargeDots", "RgbDots"}

\* the body of allocate's loop for one object: its record, nothing for an
\* object of an unknown type
alloc_str(obj) ==
  IF obj.kind = "String"
    THEN obj.label \o <<"B", LOCKED>> \o FormatHex4(obj.size) \o <<"0", "0", "0", "0">>
  ELSE IF obj.kind = "Text"
    THEN obj.label \o <<"A", UNLOCKED>> \o FormatHex4(obj.size) \o <<"F", "F", "F", "F">>
  ELSE IF obj.kind = "SmallDots"
    THEN obj.label \o <<"D", UNLOCKED>> \o FormatStr(obj.size) \o obj.color_status
  ELSE IF IsLongLayout(obj)
    THEN obj.label \o <<UNLOCKED>> \o FormatStr(obj.size) \o obj.color_status
           \o <<"0", "0", "0", "0">>
  ELSE <<>>

RECURSIVE alloc_seq(_)
\* seq once the loop is over
alloc_seq(fs) == IF fs = <<>> THEN <<>> ELSE alloc_str(fs[1]) \o alloc_seq(Tail(fs))

\* special_function after the loop, from the object the loop variable is left
\* on: the last one. "unbound" when there is none, or when it is of neither layout.
special_function(fs) ==
  IF fs = <<>> THEN "unbound"
  ELSE IF IsShortLayout(fs[Len(fs)]) THEN "$"
  ELSE IF IsLongLayout(fs[Len(fs)]) THEN "8"
  ELSE "unbound"

\* allocate(files)
Allocate ==
  /\ lastcall' = [op |-> "allocate", locked |-> FALSE]
  /\ IF special_function(files) = "unbound"
       THEN /\ fraised' = "UnboundLocalError"
            /\ sent' = <<>>
       ELSE /\ fraised' = "none"
            /\ sent' = <<<<"E", special_function(files)>> \o alloc_seq(files)>>
  /\ UNCHANGED <<files, tvars, dvars>>

RECURSIVE run_sequence_labels_all(_)
\* every object's label
run_sequence_labels_all(fs) ==
  IF fs = <<>> THEN <<>> ELSE fs[1].label \o run_sequence_labels_all(Tail(fs))

RECURSIVE run_sequence_labels(_)
\* the loop of set_run_sequence: what it adds to seq_str
run_sequence_labels(fs) ==
  IF fs = <<>> THEN <<>>
  ELSE (IF fs[1].kind = "Text" THEN fs[1].label ELSE <<>>)
         \o run_sequence_labels(Tail(fs))

\* seq_str
seq_str(fs, locked) ==
  <<".", "T">> \o <<IF locked THEN "L" ELSE "U">> \o run_sequence_labels(fs)

\* set_run_sequence(files, locked)
SetRunSequence(locked) ==
  /\ lastcall' = [op |-> "set_run_sequence", locked |-> locked]
  /\ fraised' = "none"
  /\ sent' = <<<<"E">> \o seq_str(files, locked)>>
  /\ UNCHANGED <<files, tvars, dvars>>

FilesIdle ==
  /\ files = <<>>
  /\ lastcall = [op |-> "none", locked |-> FALSE]
  /\ sent = <<>>
  /\ fraised = "none"

-----------------------------------------------------------------------------
(* The transports' specification *)

TransportsInit ==
  /\ iface \in {"Serial", "USB"}
  /\ opens = 0
  /\ SerialInit
  /\ USBInit
  /\ pc = "idle"
  /\ packet = <<>>
  /\ remaining = <<>>
  /\ written = 0
  /\ log = <<>>
  /\ ticks = 0
  /\ result = "none"
  /\ raised = "none"

TransportsIdle ==
  /\ iface = "USB"
  /\ opens = 0
  /\ SerialInit
  /\ USBInit
  /\ pc = "idle"
  /\ packet = <<>>
  /\ remaining = <<>>
  /\ written = 0
  /\ log = <<>>
  /\ ticks = 0
  /\ result = "none"
  /\ raised = "none"

Init ==
  /\ TransportsInit
  /\ DotsInit
  /\ FilesIdle

Next ==
  \/ \E ok \in BOOLEAN : Serial_connect(ok)
  \/ Serial_disconnect
  \/ \E p \in Packets, w \in BOOLEAN : Serial_write(p, w)
  \/ \E p \in Packets, c \in BOOLEAN, w \in BOOLEAN : Serial_write_connect(p, c, w)
  \/ \E o \in ConnectOutcomes : USB_connect(o)
  \/ USB_connect_again
  \/ USB_disconnect
  \/ \E p \in Packets : USB_write(p)
  \/ \E p \in Packets, o \in ConnectOutcomes : USB_write_connect_raises(p, o)
  \/ \E p \in Packets, o \in ConnectOutcomes : USB_write_connect(p, o)
  \/ \E r \in RAISED..MaxFrame : USB_write_part1(r)
  \/ \E r \in RAISED..MaxFrame : USB_write_part2(r)
  \/ \E r \in RAISED..MaxFrame : USB_write_chunk(r)
  \/ \E r \in RAISED..MaxFrame : USB_write_whole(r)
  \/ \E r \in RAISED..MaxFrame : USB_write_final(r)

Spec == Init /\ [][Next]_vars

\* The USB transport on a link whose short counts are not limited. A call
\* that has started runs on: the step it stands at is taken (weak fairness),
\* with whatever outcome the link chooses.
InitLink ==
  /\ TransportsIdle
  /\ DotsInit
  /\ FilesIdle

USBWriteStep ==
  \/ \E r \in RAISED..MaxFrame : USB_write_part1(r)
  \/ \E r \in RAISED..MaxFrame : USB_write_part2(r)
  \/ \E r \in RAISED..MaxFrame : USB_write_chunk_any(r)
  \/ \E r \in RAISED..MaxFrame : USB_write_whole(r)
  \/ \E r \in RAISED..MaxFrame : USB_write_final(r)

NextLink ==
  \/ \E o \in ConnectOutcomes : USB_connect(o)
  \/ USB_connect_again
  \/ USB_disconnect
  \/ \E p \in Packets : USB_write(p)
  \/ \E p \in Packets, o \in ConnectOutcomes : USB_write_connect_raises(p, o)
  \/ \E p \in Packets, o \in ConnectOutcomes : USB_write_connect(p, o)
  \/ USBWriteStep

SpecLink == InitLink /\ [][NextLink]_vars /\ WF_vars(USBWriteStep)

-----------------------------------------------------------------------------
(* The dots pictures' specification *)

InitDots ==
  /\ TransportsIdle
  /\ FilesIdle
  /\ DotsInit

NextDots ==
  \/ \E l \in Labels, h \in DimSamples, w \in DimSamples, d \in DataSamples,
        c \in ColorSamples : SmallDotsPicture_init(l, h, w, d, c)
  \/ \E l \in Labels, h \in DimSamples, w \in DimSamples, d \in DataSamples,
        c \in ColorSamples : LargeDotsPicture_init(l, h, w, d, c)
  \/ \E l \in Labels, h \in DimSamples, w \in DimSamples, d \in DataSamples :
        RgbDotsPicture_init(l, h, w, d)
  \/ Dots_str

SpecDots == InitDots /\ [][NextDots]_vars

-----------------------------------------------------------------------------
(* The builders' specification *)

InitFiles ==
  /\ TransportsIdle
  /\ DotsInit
  /\ files \in Collections
  /\ lastcall = [op |-> "none", locked |-> FALSE]
  /\ sent = <<>>
  /\ fraised = "none"

NextFiles ==
  \/ Allocate
  \/ \E locked \in BOOLEAN : SetRunSequence(locked)

SpecFiles == InitFiles /\ [][NextFiles]_vars

-----------------------------------------------------------------------------
(* Properties of the transports *)

IsWrite(e) == e.op = "write"
\* the underlying writes of a log, in order
Writes(l) == SelectSeq(l, IsWrite)
\* a log without the counts reported: what was offered to the link, and the sleeps
Offered(l) == [i \in 1..Len(l) |-> <<l[i].op, l[i].data>>]
IsPrefix(a, b) == Len(a) <= Len(b) /\ a = SubSeq(b, 1, Len(a))

RECURSIVE Concat(_)
\* the data of a sequence of writes, joined
Concat(ws) == IF ws = <<>> THEN <<>> ELSE ws[1].data \o Concat(Tail(ws))

\* a USB.write call that got as far as its try block
USBCall == iface = "USB" /\ packet # <<>> /\ raised = "none"
USBCallOf(codes) == USBCall /\ command_code(packet) \in codes
\* the writes of the call before its last one
DataWrites == SubSeq(Writes(log), 1, Len(Writes(log)) - 1)
AllAccepted == \A i \in 1..Len(log) : ~IsShort(log[i])

\* what a small-dots call offers the link when nothing raises: bytes [0, 16),
\* the delay, bytes [16, end), the empty packet
SmallDotsPlan(p) ==
  <<<<"write", SubSeq(p, 1, Min(16, Len(p)))>>,
    <<"sleep", <<>>>>,
    <<"write", SubSeq(p, Min(16, Len(p)) + 1, Len(p))>>,
    <<"write", <<>>>>>>

\* C1: a small-dots call of USB.write offers the link bytes [0, 16) of the
\* payload, sleeps, then offers bytes [16, end), whatever the payload's length;
\* a call that returns True has issued exactly these two data writes (and then
\* the empty packet), and a call cut short by an error a prefix of them.
C1_SmallDotsTwoWrites ==
  USBCallOf({WRITE_SMALL_DOTS}) =>
    /\ IsPrefix(Offered(log), SmallDotsPlan(packet))
    /\ result = "True" => Offered(log) = SmallDotsPlan(packet)
    /\ result = "True" => Len(DataWrites) = 2
    /\ pc = "small2" => Len(log) = 2
    /\ pc = "final" => Len(log) = 3

\* a small-dots call returned True on a payload longer than 16 bytes
C1_Witness ==
  /\ USBCallOf({WRITE_SMALL_DOTS})
  /\ result = "True"
  /\ Len(packet) > 16
  /\ Len(DataWrites[1].data) = 16
  /\ Len(DataWrites[2].data) = Len(packet) - 16

\* ceil(a / b)
CeilDiv(a, b) == (a + b - 1) \div b

\* C2: when every underlying write accepts all it is offered, a large-dots or
\* RGB-dots call of USB.write that returns True has issued ceil(L/M) data writes,
\* each of at most M bytes, which joined in order are the payload (L its length,
\* M the endpoint's wMaxPacketSize).
C2_ChunkCount ==
  (USBCallOf({WRITE_LARGE_DOTS, WRITE_RGB_DOTS}) /\ result = "True" /\ AllAccepted) =>
    /\ Len(DataWrites) = CeilDiv(Len(packet), write_endpoint)
    /\ \A i \in 1..Len(DataWrites) : Len(DataWrites[i].data) <= write_endpoint
    /\ Concat(DataWrites) = packet

\* a large-dots call returned True after full writes, the last chunk a short one
C2_Witness ==
  /\ USBCallOf({WRITE_LARGE_DOTS})
  /\ result = "True"
  /\ AllAccepted
  /\ write_endpoint = 2
  /\ Len(packet) % 2 = 1
  /\ Len(DataWrites) = (Len(packet) + 1) \div 2

EmptyWrites == {i \in 1..Len(log) : IsWrite(log[i]) /\ log[i].data = <<>>}

\* C3 as stated: in every USB.write call that returns True exactly one
\* zero-length write is issued, and it is the last underlying write.
C3_ExactlyOneEmptyWrite ==
  (USBCall /\ result = "True") => EmptyWrites = {Len(log)}

\* C3, amended: in every USB.write call that returns True the last underlying
\* write is a zero-length write issued after all the data writes, and it is the
\* only zero-length write of the call unless the call is a small-dots call whose
\* payload has at most 16 bytes: there the second data write is empty too.
C3_LastWriteEmpty ==
  (USBCall /\ result = "True") =>
    /\ Len(log) \in EmptyWrites
    /\ Len(Writes(log)) >= 2
    /\ EmptyWrites =
         IF command_code(packet) = WRITE_SMALL_DOTS /\ Len(packet) <= 16
           THEN {3, Len(log)}
           ELSE {Len(log)}

\* a small-dots call on a payload of at most 16 bytes returned True
C3_Witness ==
  /\ USBCallOf({WRITE_SMALL_DOTS})
  /\ result = "True"
  /\ Len(packet) <= 16
  /\ Cardinality(EmptyWrites) = 2

\* a write call has ended
WriteEnded == packet # <<>> /\ pc = "idle"
\* a transport-level error happened in the last write call
TransportError ==
  \/ raised # "none"
  \/ \E i \in 1..Len(log) : log[i].ret = RAISED

\* C4: write on the Serial and on the USB transport returns False and raises
\* nothing out of the call on any transport-level error, a failure of the
\* automatic connect included.
C4_WriteReturnsFalseOnError ==
  (WriteEnded /\ TransportError) => (result = "False" /\ raised = "none")

\* the transport holds a connection
Connected ==
  IF iface = "Serial" THEN conn # 0 /\ conn \in openh ELSE device # 0

ConnectCall ==
  \/ \E ok \in BOOLEAN : Serial_connect(ok)
  \/ \E o \in ConnectOutcomes : USB_connect(o)
  \/ USB_connect_again

\* C5: connect() on a connected transport, Serial or USB, is a no-op: it opens
\* no new underlying connection and leaves the handle the transport owns as it is.
C5_ConnectIdempotent ==
  [][(Connected /\ ConnectCall) =>
       UNCHANGED <<opens, conn, openh, device, write_endpoint>>]_vars

\* the bytes a write got through: the first ret of those it offered
AcceptedOf(e) == IF e.ret = RAISED THEN <<>> ELSE SubSeq(e.data, 1, e.ret)

RECURSIVE Accepted(_)
\* the bytes the writes of a sequence got through, joined in order
Accepted(ws) == IF ws = <<>> THEN <<>> ELSE AcceptedOf(ws[1]) \o Accepted(Tail(ws))

\* the chunk that starts at an offset of a payload for an endpoint of size m
ChunkAt(p, offset, m) == SubSeq(p, offset + 1, Min(offset + m, Len(p)))

\* C12: in the chunk loop of a large-dots or RGB-dots call of USB.write, a
\* write that reports k bytes shrinks the unsent remainder by exactly k: at
\* every iteration the bytes accepted so far are a prefix of the payload, the
\* remainder is the rest of it and the next chunk starts at that offset; the
\* call fails only when a write raises, not on a short write; and when it
\* returns True the accepted bytes are the whole payload in order.
C12_RemainderShrinksByCount ==
  USBCallOf({WRITE_LARGE_DOTS, WRITE_RGB_DOTS}) =>
    /\ IsPrefix(Accepted(Writes(log)), packet)
    /\ pc \in {"chunk", "final"} =>
         /\ Accepted(Writes(log)) \o remaining = packet
         /\ written = Len(Accepted(Writes(log)))
    /\ \A i \in 1..Len(Writes(log)) :
         Writes(log)[i].data =
           ChunkAt(packet, Len(Accepted(SubSeq(Writes(log), 1, i - 1))), write_endpoint)
    /\ result = "False" => log[Len(log)].ret = RAISED
    /\ result = "True" => Accepted(Writes(log)) = packet

\* a large-dots call returned True although one of its writes took 1 byte of
\* the 2 it was offered
C12_Witness ==
  /\ USBCallOf({WRITE_LARGE_DOTS})
  /\ result = "True"
  /\ \E i \in 1..Len(log) :
       /\ IsShort(log[i])
       /\ log[i].ret = 1
       /\ Len(log[i].data) = 2
  /\ Accepted(Writes(log)) = packet

\* C13: every large-dots or RGB-dots call of USB.write eventually returns,
\* True or False: its chunk loop ends on every link whose writes raise or report
\* a count between 0 and the length of the chunk offered.
C13_ChunkLoopReturns == (pc = "chunk") ~> (pc = "idle")

\* C14: in the USB transport, between calls, the device handle is held only if
\* the write endpoint is set, whatever connect, write and disconnect calls came
\* before and wherever a connect failed: connect() never takes the transport
\* for connected while write() has no write endpoint.
C14_DeviceOnlyWithEndpoint ==
  (iface = "USB" /\ pc = "idle") => (device # 0 => write_endpoint # 0)

-----------------------------------------------------------------------------
(* Properties of the builders *)

Allocated == lastcall.op = "allocate"
HasKind(fs, kinds) == \E i \in 1..Len(fs) : fs[i].kind \in kinds
Recognised(fs) ==
  \A i \in 1..Len(fs) :
    fs[i].kind \in {"Text", "String", "SmallDots", "LargeDots", "RgbDots"}

\* C6: for every collection of recognised files, in any order, allocate's
\* command uses the special-function code "8" if the collection holds a
\* large-dots or RGB-dots file and "$" otherwise.
C6_CodeFromKindsPresent ==
  (Allocated /\ files # <<>> /\ Recognised(files)) =>
    /\ fraised = "none"
    /\ Len(sent) = 1
    /\ sent[1][2] = IF HasKind(files, {"LargeDots", "RgbDots"}) THEN "8" ELSE "$"

\* C7: allocate fails with an error and writes no command whenever the
\* collection holds an object of an unknown kind, wherever it stands.
C7_UnknownKindFails ==
  (Allocated /\ HasKind(files, {"Other"})) => (fraised # "none" /\ sent = <<>>)

RECURSIVE TextLabels(_)
\* the labels of the text-kind objects, in input order
TextLabels(fs) ==
  IF fs = <<>> THEN <<>>
  ELSE IF fs[1].kind = "Text" THEN fs[1].label \o TextLabels(Tail(fs))
  ELSE TextLabels(Tail(fs))

\* C8: set_run_sequence writes exactly one command, whose body is the lock
\* marker ("L" when locked, "U" when not) followed by the labels of exactly the
\* text-kind objects of the collection, in input order.
C8_RunSequenceTextOnly ==
  lastcall.op = "set_run_sequence" =>
    /\ fraised = "none"
    /\ Len(sent) = 1
    /\ sent[1] = <<"E", ".", "T">> \o <<IF lastcall.locked THEN "L" ELSE "U">>
                   \o TextLabels(files)

\* {Text A, String B, Text C}, unlocked, lists A then C
C8_Witness ==
  /\ lastcall = [op |-> "set_run_sequence", locked |-> FALSE]
  /\ Len(files) = 3
  /\ files[1].kind = "Text" /\ files[1].label = <<"A">>
  /\ files[2].kind = "String" /\ files[2].label = <<"B">>
  /\ files[3].kind = "Text" /\ files[3].label = <<"C">>
  /\ sent = <<<<"E", ".", "T", "U", "A", "C">>>>

\* the size field of a picture's record as the allocation command is to carry
\* it: RRCC, 2 hex digits each, for a small-dots picture, and 4 hex digits of
\* height then 4 of width for a large-dots or RGB-dots picture
HexSizeField(obj) ==
  IF obj.kind = "SmallDots"
    THEN FormatHex(obj.height, 2) \o FormatHex(obj.width, 2)
    ELSE FormatHex(obj.height, 4) \o FormatHex(obj.width, 4)

\* a record with that size field; the records of the other kinds as allocate
\* builds them
HexSizeRecord(obj) ==
  IF obj.kind = "SmallDots"
    THEN obj.label \o <<"D", UNLOCKED>> \o HexSizeField(obj) \o obj.color_status
  ELSE IF IsLongLayout(obj)
    THEN obj.label \o <<UNLOCKED>> \o HexSizeField(obj) \o obj.color_status
           \o <<"0", "0", "0", "0">>
  ELSE alloc_str(obj)

RECURSIVE HexSizeRecords(_)
\* the records of a collection, the pictures' with that size field
HexSizeRecords(fs) ==
  IF fs = <<>> THEN <<>> ELSE HexSizeRecord(fs[1]) \o HexSizeRecords(Tail(fs))

RECURSIVE RecordsLength(_)
\* the length of the records when every record of a layout has one length:
\* label, type, lock, 4 digits of size and 4 more characters in the short
\* layout (11); label, lock, 8 digits of size, the colour status and "0000" in
\* the long one (17)
RecordsLength(fs) ==
  IF fs = <<>> THEN 0
  ELSE (IF IsLongLayout(fs[1]) THEN 17 ELSE 11) + RecordsLength(Tail(fs))

\* C11: in the command allocate builds, the size field of every small-dots
\* record is the picture's 4-hex-digit RRCC field and the size field of every
\* large-dots or RGB-dots record is 8 hex digits, 4 of height and 4 of width, so
\* that every record of a layout has one length whatever the dimensions are.
C11_SizeFieldFixedHex ==
  (Allocated /\ fraised = "none" /\ HasKind(files, {"SmallDots", "LargeDots", "RgbDots"})) =>
    /\ sent[1] = <<"E", special_function(files)>> \o HexSizeRecords(files)
    /\ Len(sent[1]) = 2 + RecordsLength(files)

-----------------------------------------------------------------------------
(* Properties of the dots pictures *)

ConstructorCalled == attempt.kind # "none"
DimensionsInBounds ==
  IF attempt.kind = "SmallDots"
    THEN attempt.height <= 31 /\ attempt.width <= 255
    ELSE attempt.height <= 65535 /\ attempt.width <= 65535

\* C9: with dimensions in bounds, a SmallDots picture is accepted exactly when
\* its label has 1 character and a LargeDots or RgbDots picture exactly when its
\* label has 9 characters.
C9_LabelLengthRule ==
  (ConstructorCalled /\ DimensionsInBounds) =>
    (cerr = "none" <=>
       Len(attempt.label) = IF attempt.kind = "SmallDots" THEN 1 ELSE 9)

HexDigitValue(c) == CHOOSE d \in 0..15 : HexChars[d + 1] = c
IsHexDigit(c) == \E d \in 0..15 : HexChars[d + 1] = c

RECURSIVE HexValue(_)
\* the number a sequence of hex digits writes
HexValue(ds) ==
  IF ds = <<>> THEN 0
  ELSE HexValue(SubSeq(ds, 1, Len(ds) - 1)) * 16 + HexDigitValue(ds[Len(ds)])

RECURSIVE RowsLength(_)
\* the characters the rows take, each row with its terminator
RowsLength(rows) ==
  IF rows = <<>> THEN 0 ELSE Len(rows[1]) + 1 + RowsLength(Tail(rows))

Serialized == wire # <<>>
\* N of the picture's variant
FieldDigits == IF pic.kind = "SmallDots" THEN 2 ELSE 4
\* what follows the type tag and the label, up to the rows
DimensionField ==
  SubSeq(wire, 2 + Len(pic.label), Len(wire) - RowsLength(pic.data))

\* C10: for every dots picture the constructor accepts (height and width
\* non-negative integers), the dimension field str() emits after the type tag
\* and the label is exactly 2N uppercase hex digits (N = 2 for Small, 4 for
\* Large and RGB): N digits that decode to the height, then N that decode to the
\* width.
C10_DimensionFieldRoundTrip ==
  Serialized =>
    /\ Len(DimensionField) = 2 * FieldDigits
    /\ \A i \in 1..Len(DimensionField) : IsHexDigit(DimensionField[i])
    /\ HexValue(SubSeq(DimensionField, 1, FieldDigits)) = pic.height
    /\ HexValue(SubSeq(DimensionField, FieldDigits + 1, 2 * FieldDigits)) = pic.width

\* a small picture of 31 by 255 and its field "1FFF"
C10_Witness ==
  /\ Serialized
  /\ pic.kind = "SmallDots"
  /\ pic.height = 31 /\ pic.width = 255
  /\ pic.data # <<>>
  /\ DimensionField = <<"1", "F", "F", "F">>

=============================================================================
